---- MODULE Spec2Model ----
(***************************************************************************)
(* Model of the medical records system: the field cipher and secret        *)
(* manager of crypto_utils.py, the request handlers and audit hash chain   *)
(* of app.py, and the reconciler of migrate_encryption.py.                 *)
(*                                                                         *)
(* Strings are sequences of one-character strings, so that joining and     *)
(* splitting on the '|' delimiter and f-string concatenation are computed  *)
(* as the code computes them.  AES-256-GCM is modelled symbolically: a     *)
(* blob carries the key and nonce it was made with and its plaintext, and  *)
(* decrypts only under that key with an intact tag.  SHA-256 is modelled   *)
(* as an injective function of the hashed message.                         *)
(***************************************************************************)
EXTENDS Integers, Sequences, FiniteSets, TLC

VARIABLES
  env,            \* MEDICAL_MASTER_KEY as found by os.getenv / load_dotenv
  app,            \* the web application process and its crypto singleton
  patients,       \* committed rows of table patients, id -> row
  nextId,         \* the SERIAL sequence of patients.id
  audit_logs,     \* committed rows of table audit_logs, in insertion order
  clock,          \* datetime.now()
  urandom,        \* os.urandom(12): number of nonces drawn so far
  req,            \* per request thread: position and locals of its handler
  mig,            \* migrate_encrypted_data: position and locals
  started,        \* requests, reconciler runs and .env edits started so far
  salt_file,      \* salt.key on disk
  starts,         \* per process start: position in _get_or_create_salt
  cipher          \* one encrypt / alter / decrypt experiment

vars == <<env, app, patients, nextId, audit_logs, clock, urandom, req, mig,
          started, salt_file, starts, cipher>>

(***************************************************************************)
(* Bounds                                                                  *)
(***************************************************************************)
MaxOps == 3

Procs == {1, 2}

StartProcs == {"s1", "s2", "s3"}

Salts == {"saltA", "saltB"}

(***************************************************************************)
(* Strings                                                                 *)
(***************************************************************************)
Delim == "|"

FieldNames == {"name", "dob", "gender", "address", "phone", "diagnosis", "treatment"}

\* "|".join(parts)
RECURSIVE Join(_)
Join(parts) ==
  IF Len(parts) = 0 THEN <<>>
  ELSE IF Len(parts) = 1 THEN parts[1]
  ELSE parts[1] \o <<Delim>> \o Join(Tail(parts))

\* s.split('|')
RECURSIVE Split(_)
Split(s) ==
  IF \A i \in 1..Len(s) : s[i] # Delim THEN <<s>>
  ELSE LET i == CHOOSE k \in 1..Len(s) :
                  s[k] = Delim /\ \A j \in 1..(k-1) : s[j] # Delim
       IN <<SubSeq(s, 1, i-1)>> \o Split(SubSeq(s, i+1, Len(s)))

\* fields.extend([''] * (7 - len(fields)))
Pad7(fields) ==
  IF Len(fields) < 7
  THEN fields \o [i \in 1..(7 - Len(fields)) |-> <<>>]
  ELSE fields

EmptyRecord == [f \in FieldNames |-> <<>>]

\* any(d.values()): some field is a non-empty string
AnyValue(d) == \E f \in FieldNames : d[f] # <<>>

(***************************************************************************)
(* Secret manager and field cipher (crypto_utils.py)                       *)
(***************************************************************************)
Absent == "absent"

FallbackKey == "fallback-key-for-development"

Masters == {Absent, "mk1"}

TheSalt == "saltA"

\* os.getenv('MEDICAL_MASTER_KEY', 'fallback-key-for-development') fed to PBKDF2
_derive_key(e, salt) ==
  [master |-> IF e = Absent THEN FallbackKey ELSE e, salt |-> salt]

NullBlob == [kind |-> "null"]

MalformedBlob == [kind |-> "malformed"]

\* the joined plaintext, in the field order of encrypt_patient_data
Serialize(d) ==
  Join(<<d.name, d.dob, d.address, d.phone, d.diagnosis, d.treatment, d.gender>>)

encrypt_patient_data(key, iv, d) ==
  [kind |-> "gcm", key |-> key, iv |-> iv, pt |-> Serialize(d), tag |-> TRUE]

\* AESGCM.decrypt succeeds: well-formed, same key, tag intact
Authentic(key, blob) ==
  /\ blob.kind = "gcm"
  /\ blob.key = key
  /\ blob.tag

decrypt_patient_data(key, blob) ==
  IF Authentic(key, blob)
  THEN LET fields == Pad7(Split(blob.pt))
       IN [name |-> fields[1], dob |-> fields[2], address |-> fields[3],
           phone |-> fields[4], diagnosis |-> fields[5],
           treatment |-> fields[6], gender |-> fields[7]]
  ELSE EmptyRecord

(***************************************************************************)
(* Cipher experiments: encrypt a record, possibly alter the blob, decrypt  *)
(***************************************************************************)
FieldVals == {<<>>, <<"a">>, <<Delim>>}

Keys == {_derive_key(m, s) : m \in {"mk1", "mk2"}, s \in {TheSalt}}

IdleCipher ==
  [pc |-> "off", patient_data |-> EmptyRecord, key |-> _derive_key("mk1", TheSalt),
   dkey |-> _derive_key("mk1", TheSalt), encrypted_data |-> NullBlob,
   decrypted |-> EmptyRecord]

CipherInit ==
  \E r \in [FieldNames -> FieldVals], k \in Keys :
    cipher = [IdleCipher EXCEPT !.pc = "plain", !.patient_data = r, !.key = k, !.dkey = k]

CipherEncrypt ==
  /\ cipher.pc = "plain"
  /\ cipher' = [cipher EXCEPT !.pc = "blob",
                  !.encrypted_data = encrypt_patient_data(cipher.key, 0, cipher.patient_data)]

\* one byte flipped (tag fails), or the blob cut or not base64 (malformed)
CipherAlter ==
  /\ cipher.pc = "blob"
  /\ \E b \in {[cipher.encrypted_data EXCEPT !.tag = FALSE], MalformedBlob, NullBlob} :
       cipher' = [cipher EXCEPT !.pc = "altered", !.encrypted_data = b]

\* decryption in a process that derived another key
CipherOtherKey ==
  /\ cipher.pc = "blob"
  /\ \E k \in Keys \ {cipher.key} :
       cipher' = [cipher EXCEPT !.pc = "altered", !.dkey = k]

CipherDecrypt ==
  /\ cipher.pc \in {"blob", "altered"}
  /\ cipher' = [cipher EXCEPT !.pc = IF cipher.pc = "blob" THEN "roundtrip" ELSE "rejected",
                  !.decrypted = decrypt_patient_data(cipher.dkey, cipher.encrypted_data)]

(***************************************************************************)
(* Audit chain (crypto_utils.py, app.py)                                   *)
(***************************************************************************)
\* '0' * 64
GenesisHash == [i \in 1..64 |-> "0"]

\* SHA-256 of f"{prev_hash}{role}{action}{details}{timestamp}"
create_log_hash(prev_hash, role, action, details, timestamp) ==
  <<prev_hash, role, action, details, timestamp>>

\* the lookup with the order reversed: ORDER BY timestamp ASC LIMIT 1
TipHashOldest(log) ==
  IF Len(log) = 0 THEN GenesisHash
  ELSE LET i == CHOOSE k \in 1..Len(log) :
                  \A j \in 1..Len(log) : log[k].timestamp <= log[j].timestamp
       IN log[i].hash

\* SELECT hash FROM audit_logs ORDER BY timestamp DESC LIMIT 1, then
\* last_record['hash'] if last_record else '0' * 64
TipHash(log) ==
  IF Len(log) = 0 THEN GenesisHash
  ELSE LET i == CHOOSE k \in 1..Len(log) :
                  \A j \in 1..Len(log) : log[j].timestamp <= log[k].timestamp
       IN log[i].hash

\* the details string that is hashed
HashedDetails(op, name, id) ==
  CASE op = "add"    -> <<"Added ">> \o name
    [] op = "edit"   -> <<"Edited patient: ">> \o name
    [] op = "treat"  -> <<"Updated treatment for patient: ">> \o name
                          \o <<" (ID: ", ToString(id), ")">>
    [] op = "delete" -> <<"Deleted ">> \o name

\* the details string that is stored in audit_logs
StoredDetails(op, d, previous) ==
  CASE op = "add" ->
         <<"Added new patient: Name=">> \o d.name \o <<", DOB=">> \o d.dob
           \o <<", Gender=">> \o d.gender \o <<", Address=">> \o d.address
           \o <<", Phone=">> \o d.phone \o <<", Diagnosis=">> \o d.diagnosis
           \o <<", Treatment=">> \o d.treatment
    [] op = "edit" ->
         <<"Updated patient ">> \o d.name \o <<": DOB=">> \o d.dob
           \o <<", Gender=">> \o d.gender \o <<", Address=">> \o d.address
           \o <<", Phone=">> \o d.phone \o <<", Diagnosis=">> \o d.diagnosis
           \o <<", Treatment=">> \o d.treatment
    [] op = "treat" ->
         <<"Updated treatment for ">> \o d.name \o <<": Previous=\"">> \o previous
           \o <<"\", New=\"">> \o d.treatment \o <<"\"">>
    [] op = "delete" -> <<"Deleted patient: ">> \o d.name

ActionName(op) ==
  CASE op = "add"    -> "Add Patient"
    [] op = "edit"   -> "Edit Patient"
    [] op = "treat"  -> "Update Treatment"
    [] op = "delete" -> "Delete Patient"

(***************************************************************************)
(* The store                                                               *)
(***************************************************************************)
Roles == {"Doctor", "Nurse", "Admin"}

FormJ ==
  [name |-> <<"J">>, dob |-> <<"1">>, gender |-> <<"F">>, address |-> <<"x">>,
   phone |-> <<"5">>, diagnosis |-> <<"d">>, treatment |-> <<"r">>]

Forms == {FormJ, EmptyRecord}

Treatments == {<<"n">>}

\* the plaintext columns of a row
SideFields(row) == [f \in FieldNames |-> row[f]]

MakeRow(d, blob) ==
  [name |-> d.name, dob |-> d.dob, gender |-> d.gender, address |-> d.address,
   phone |-> d.phone, diagnosis |-> d.diagnosis, treatment |-> d.treatment,
   encrypted_data |-> blob]

NoRow == MakeRow(EmptyRecord, NullBlob)

\* a row written before the blob column was filled
LegacyRow == MakeRow(FormJ, NullBlob)

NoWrite == [kind |-> "none", id |-> 0, row |-> NoRow]

IdleReq ==
  [pc |-> "idle", op |-> "none", role |-> "none", id |-> 0, form |-> EmptyRecord,
   found |-> FALSE, current |-> NoRow, wr |-> NoWrite,
   prev_hash |-> GenesisHash, timestamp |-> 0, new_hash |-> GenesisHash]

IdleMig ==
  [pc |-> "idle", key |-> _derive_key("mk1", TheSalt), fetched |-> <<>>, todo |-> <<>>,
   updates |-> <<>>, aborted |-> FALSE, completed |-> 0,
   success_count |-> 0, fail_count |-> 0, reconstructed_count |-> 0]

\* rows another open transaction has updated and not yet committed
\* (p is a request thread, or 0 for the reconciler)
Locked(p, id) ==
  \/ \E q \in Procs \ {p} : req[q].wr.kind = "update" /\ req[q].wr.id = id
  \/ p # 0 /\ mig.pc = "loop" /\ \E i \in 1..Len(mig.updates) : mig.updates[i].id = id

\* no other operation is in progress
Quiet(p) ==
  /\ \A q \in Procs \ {p} : req[q].pc = "idle"
  /\ p # 0 => mig.pc # "loop"

\* the table after a transaction's row write is committed
ApplyWrite(tbl, w) ==
  CASE w.kind = "insert" -> [i \in DOMAIN tbl \cup {w.id} |-> IF i = w.id THEN w.row ELSE tbl[i]]
    [] w.kind = "update" -> IF w.id \in DOMAIN tbl THEN [tbl EXCEPT ![w.id] = w.row] ELSE tbl
    [] w.kind = "delete" -> [i \in DOMAIN tbl \ {w.id} |-> tbl[i]]
    [] OTHER -> tbl

MainFrame == UNCHANGED <<salt_file, starts, cipher>>

StoreFrame == UNCHANGED <<patients, nextId, audit_logs, clock, urandom>>

(***************************************************************************)
(* Configuration and start of the web application (app.py, module level)   *)
(***************************************************************************)
\* app.secret_key = os.getenv(...); raise RuntimeError if unset; crypto = MedicalCrypto()
AppStarted(e) ==
  IF e = Absent
  THEN [state |-> "refused", key |-> _derive_key("mk1", TheSalt)]
  ELSE [state |-> "up", key |-> _derive_key(e, TheSalt)]

MainInit ==
  /\ env \in Masters
  /\ app = AppStarted(env)
  /\ patients = (1 :> LegacyRow)
  /\ nextId = 2
  /\ audit_logs = <<>>
  /\ clock = 1
  /\ urandom = 0
  /\ req = [p \in Procs |-> IdleReq]
  /\ mig = IdleMig
  /\ started = 0

\* the operator edits .env
SetEnv ==
  /\ started < MaxOps
  /\ \E m \in Masters \ {env} : env' = m
  /\ started' = started + 1
  /\ UNCHANGED <<app, req, mig>>
  /\ StoreFrame /\ MainFrame

\* the application is started again after it refused to start
AppStart ==
  /\ app.state = "refused"
  /\ env # Absent
  /\ app' = AppStarted(env)
  /\ UNCHANGED <<env, req, mig, started>>
  /\ StoreFrame /\ MainFrame

(***************************************************************************)
(* Request handlers (app.py)                                               *)
(***************************************************************************)
\* the <int:id> of a request: a row of the table, or an id no row has
TargetIds == DOMAIN patients \cup {nextId}

\* a request can be taken by thread p: the first thread that is free
Accepts(p, seq) ==
  /\ app.state = "up"
  /\ req[p].pc = "idle"
  /\ \A q \in Procs : q < p => req[q].pc # "idle"
  /\ started < MaxOps
  /\ seq => Quiet(p)

\* if role != ...: return redirect(...)
Redirected(p) ==
  /\ req' = req
  /\ StoreFrame

\* add_patient: role check, encrypt, INSERT INTO patients
AddPatient(p, seq) ==
  /\ Accepts(p, seq)
  /\ \E role \in Roles, form \in Forms :
       IF role # "Doctor" THEN Redirected(p)
       ELSE /\ LET blob == encrypt_patient_data(app.key, urandom, form)
               IN req' = [req EXCEPT ![p] =
                            [IdleReq EXCEPT !.pc = "tip", !.op = "add", !.role = role,
                               !.form = form,
                               !.wr = [kind |-> "insert", id |-> nextId,
                                       row |-> MakeRow(form, blob)]]]
            /\ nextId' = nextId + 1
            /\ urandom' = urandom + 1
            /\ UNCHANGED <<patients, audit_logs, clock>>
  /\ started' = started + 1
  /\ UNCHANGED <<env, app, mig>>
  /\ MainFrame

\* edit_patient: role check, encrypt, UPDATE patients SET <all columns> WHERE id
EditPatient(p, seq) ==
  /\ Accepts(p, seq)
  /\ \E role \in Roles, id \in TargetIds, form \in Forms :
       IF role # "Doctor" THEN Redirected(p)
       ELSE /\ ~Locked(p, id)
            /\ LET blob == encrypt_patient_data(app.key, urandom, form)
               IN req' = [req EXCEPT ![p] =
                            [IdleReq EXCEPT !.pc = "tip", !.op = "edit", !.role = role,
                               !.id = id, !.form = form,
                               !.wr = IF id \in DOMAIN patients
                                      THEN [kind |-> "update", id |-> id,
                                            row |-> MakeRow(form, blob)]
                                      ELSE NoWrite]]
            /\ urandom' = urandom + 1
            /\ UNCHANGED <<patients, nextId, audit_logs, clock>>
  /\ started' = started + 1
  /\ UNCHANGED <<env, app, mig>>
  /\ MainFrame

\* edit_treatment with the role check left out
EditTreatmentAnyRole(p, seq) ==
  /\ Accepts(p, seq)
  /\ \E role \in Roles, id \in TargetIds, treatment \in Treatments :
       IF id \notin DOMAIN patients THEN Redirected(p)
       ELSE /\ req' = [req EXCEPT ![p] =
                         [IdleReq EXCEPT !.pc = "treat_update", !.op = "treat",
                            !.role = role, !.id = id, !.found = TRUE,
                            !.form = [EmptyRecord EXCEPT !.treatment = treatment],
                            !.current = patients[id]]]
            /\ StoreFrame
  /\ started' = started + 1
  /\ UNCHANGED <<env, app, mig>>
  /\ MainFrame

\* edit_treatment: role check, SELECT * FROM patients WHERE id;
\* current['name'] raises when there is no such row
EditTreatment(p, seq) ==
  /\ Accepts(p, seq)
  /\ \E role \in Roles, id \in TargetIds, treatment \in Treatments :
       IF role # "Nurse" \/ id \notin DOMAIN patients THEN Redirected(p)
       ELSE /\ req' = [req EXCEPT ![p] =
                         [IdleReq EXCEPT !.pc = "treat_update", !.op = "treat",
                            !.role = role, !.id = id, !.found = TRUE,
                            !.form = [EmptyRecord EXCEPT !.treatment = treatment],
                            !.current = patients[id]]]
            /\ StoreFrame
  /\ started' = started + 1
  /\ UNCHANGED <<env, app, mig>>
  /\ MainFrame

\* edit_treatment: encrypt what was read, UPDATE patients SET treatment, encrypted_data
TreatUpdate(p) ==
  /\ req[p].pc = "treat_update"
  /\ ~Locked(p, req[p].id)
  /\ LET cur  == req[p].current
         data == [SideFields(cur) EXCEPT !.treatment = req[p].form.treatment]
         blob == encrypt_patient_data(app.key, urandom, data)
     IN req' = [req EXCEPT ![p].pc = "tip",
                  ![p].wr = IF req[p].id \in DOMAIN patients
                            THEN [kind |-> "update", id |-> req[p].id,
                                  row |-> [patients[req[p].id] EXCEPT
                                             !.treatment = req[p].form.treatment,
                                             !.encrypted_data = blob]]
                            ELSE NoWrite]
  /\ urandom' = urandom + 1
  /\ UNCHANGED <<env, app, mig, started, patients, nextId, audit_logs, clock>>
  /\ MainFrame

\* delete_patient: role check, SELECT name FROM patients WHERE id
DeletePatient(p, seq) ==
  /\ Accepts(p, seq)
  /\ \E role \in Roles, id \in TargetIds :
       IF role # "Doctor" THEN Redirected(p)
       ELSE /\ req' = [req EXCEPT ![p] =
                         [IdleReq EXCEPT !.pc = "tip", !.op = "delete", !.role = role,
                            !.id = id, !.found = id \in DOMAIN patients,
                            !.current = IF id \in DOMAIN patients
                                        THEN patients[id] ELSE NoRow]]
            /\ StoreFrame
  /\ started' = started + 1
  /\ UNCHANGED <<env, app, mig>>
  /\ MainFrame

\* the patient_data whose fields go into the audit strings
AuditData(r) ==
  CASE r.op = "treat"  -> [SideFields(r.current) EXCEPT !.treatment = r.form.treatment]
    [] r.op = "delete" -> SideFields(r.current)
    [] OTHER           -> r.form

\* SELECT the tip, timestamp = datetime.now(), new_hash = create_log_hash(...);
\* in delete_patient, patient["name"] on None raises and nothing is committed
ReadTip(p) ==
  /\ req[p].pc = "tip"
  /\ req' = [req EXCEPT ![p] =
               IF req[p].op = "delete" /\ ~req[p].found
               THEN IdleReq
               ELSE [req[p] EXCEPT !.pc = "commit", !.prev_hash = TipHash(audit_logs),
                       !.timestamp = clock,
                       !.new_hash = create_log_hash(TipHash(audit_logs), req[p].role,
                                      ActionName(req[p].op),
                                      HashedDetails(req[p].op, AuditData(req[p]).name, req[p].id),
                                      clock)]]
  /\ clock' = clock + 1
  /\ UNCHANGED <<env, app, mig, started, patients, nextId, audit_logs, urandom>>
  /\ MainFrame

\* the audit_logs row a handler inserts
AuditEntry(r) ==
  [role |-> r.role, action |-> ActionName(r.op),
   details |-> StoredDetails(r.op, AuditData(r), r.current.treatment),
   timestamp |-> r.timestamp, prev_hash |-> r.prev_hash, hash |-> r.new_hash]

\* a commit of the row write that leaves the audit INSERT out
CommitUnlogged(p) ==
  /\ req[p].pc = "commit"
  /\ req[p].op = "delete" => ~Locked(p, req[p].id)
  /\ audit_logs' = audit_logs
  /\ patients' = ApplyWrite(patients,
                   IF req[p].op = "delete"
                   THEN [kind |-> "delete", id |-> req[p].id, row |-> NoRow]
                   ELSE req[p].wr)
  /\ req' = [req EXCEPT ![p] = IdleReq]
  /\ UNCHANGED <<env, app, mig, started, nextId, clock, urandom>>
  /\ MainFrame

\* INSERT INTO audit_logs (and DELETE FROM patients in delete_patient), conn.commit()
Commit(p) ==
  /\ req[p].pc = "commit"
  /\ req[p].op = "delete" => ~Locked(p, req[p].id)
  /\ audit_logs' = Append(audit_logs, AuditEntry(req[p]))
  /\ patients' = ApplyWrite(patients,
                   IF req[p].op = "delete"
                   THEN [kind |-> "delete", id |-> req[p].id, row |-> NoRow]
                   ELSE req[p].wr)
  /\ req' = [req EXCEPT ![p] = IdleReq]
  /\ UNCHANGED <<env, app, mig, started, nextId, clock, urandom>>
  /\ MainFrame

\* view_encrypted: role check, SELECT * FROM patients WHERE id
ViewEncrypted(p, seq) ==
  /\ Accepts(p, seq)
  /\ \E role \in Roles, id \in TargetIds :
       IF role # "Admin" \/ id \notin DOMAIN patients THEN Redirected(p)
       ELSE IF patients[id].encrypted_data # NullBlob THEN Redirected(p)
       ELSE /\ req' = [req EXCEPT ![p] =
                         [IdleReq EXCEPT !.pc = "view_update", !.op = "view",
                            !.role = role, !.id = id, !.found = TRUE,
                            !.current = patients[id]]]
            /\ StoreFrame
  /\ started' = started + 1
  /\ UNCHANGED <<env, app, mig>>
  /\ MainFrame

\* view_encrypted: encrypt the columns read, UPDATE patients SET encrypted_data, commit
ViewUpdate(p) ==
  /\ req[p].pc = "view_update"
  /\ ~Locked(p, req[p].id)
  /\ LET blob == encrypt_patient_data(app.key, urandom, SideFields(req[p].current))
     IN patients' = IF req[p].id \in DOMAIN patients
                    THEN [patients EXCEPT ![req[p].id].encrypted_data = blob]
                    ELSE patients
  /\ urandom' = urandom + 1
  /\ req' = [req EXCEPT ![p] = IdleReq]
  /\ UNCHANGED <<env, app, mig, started, nextId, audit_logs, clock>>
  /\ MainFrame

(***************************************************************************)
(* The reconciler (migrate_encryption.py)                                  *)
(***************************************************************************)
\* the rows of a table as a sequence of [id, row], by id
RECURSIVE RowsOf(_, _)
RowsOf(tbl, ids) ==
  IF ids = {} THEN <<>>
  ELSE LET i == CHOOSE k \in ids : \A j \in ids : k <= j
       IN <<[id |-> i, row |-> tbl[i]]>> \o RowsOf(tbl, ids \ {i})

\* crypto = MedicalCrypto(); SELECT * FROM patients WHERE encrypted_data IS NOT NULL
MigStart(seq) ==
  /\ mig.pc # "loop"
  /\ started < MaxOps
  /\ seq => Quiet(0)
  /\ LET rows == RowsOf(patients,
                   {i \in DOMAIN patients : patients[i].encrypted_data # NullBlob})
     IN mig' = [IdleMig EXCEPT !.pc = "loop", !.key = _derive_key(env, TheSalt),
                  !.fetched = rows, !.todo = rows, !.completed = mig.completed]
  /\ started' = started + 1
  /\ UNCHANGED <<env, app, req>>
  /\ StoreFrame /\ MainFrame

\* what the loop body encrypts for one fetched row
MigPlain(key, row) ==
  LET decrypted_data == decrypt_patient_data(key, row.encrypted_data)
  IN IF ~AnyValue(decrypted_data) THEN SideFields(row) ELSE decrypted_data

\* an UPDATE that also rewrites a plaintext column
MigApplyTreatment(row, blob) ==
  [row EXCEPT !.encrypted_data = blob, !.treatment = <<>>]

\* UPDATE patients SET encrypted_data = %s WHERE id = %s
MigApply(row, blob) == [row EXCEPT !.encrypted_data = blob]

\* one iteration of the loop over the fetched rows; once a statement has failed
\* the transaction is aborted and every later UPDATE raises and is counted as failed
MigStep ==
  /\ mig.pc = "loop"
  /\ Len(mig.todo) > 0
  /\ LET patient == Head(mig.todo)
         decrypted_data == decrypt_patient_data(mig.key, patient.row.encrypted_data)
         blob == encrypt_patient_data(mig.key, urandom, MigPlain(mig.key, patient.row))
     IN IF mig.aborted
        THEN mig' = [mig EXCEPT !.todo = Tail(mig.todo),
                       !.fail_count = mig.fail_count + 1]
        ELSE /\ ~Locked(0, patient.id)
             /\ mig' = [mig EXCEPT !.todo = Tail(mig.todo),
                          !.updates = IF patient.id \in DOMAIN patients
                                      THEN Append(mig.updates,
                                                  [id |-> patient.id, blob |-> blob])
                                      ELSE mig.updates,
                          !.success_count = mig.success_count + 1,
                          !.reconstructed_count = mig.reconstructed_count
                              + IF ~AnyValue(decrypted_data) THEN 1 ELSE 0]
  /\ urandom' = urandom + 1
  /\ UNCHANGED <<env, app, req, started, patients, nextId, audit_logs, clock>>
  /\ MainFrame

\* an iteration whose cur.execute raises (lost connection, statement error):
\* except Exception counts the record as failed, the transaction is left aborted
MigStepError ==
  /\ mig.pc = "loop"
  /\ Len(mig.todo) > 0
  /\ ~mig.aborted
  /\ mig' = [mig EXCEPT !.todo = Tail(mig.todo), !.aborted = TRUE,
               !.fail_count = mig.fail_count + 1]
  /\ urandom' = urandom + 1
  /\ UNCHANGED <<env, app, req, started, patients, nextId, audit_logs, clock>>
  /\ MainFrame

\* the process is killed inside the loop: nothing was committed
MigCrash ==
  /\ mig.pc = "loop"
  /\ Len(mig.todo) > 0
  /\ mig' = [mig EXCEPT !.pc = "crashed"]
  /\ UNCHANGED <<env, app, req, started, patients, nextId, audit_logs, clock, urandom>>
  /\ MainFrame

\* the table after all UPDATEs of the run are committed
RECURSIVE MigCommitted(_, _)
MigCommitted(tbl, updates) ==
  IF Len(updates) = 0 THEN tbl
  ELSE LET u == Head(updates)
       IN MigCommitted([tbl EXCEPT ![u.id] = MigApply(tbl[u.id], u.blob)], Tail(updates))

\* conn.commit() after the loop; on an aborted transaction it rolls back
MigCommit ==
  /\ mig.pc = "loop"
  /\ Len(mig.todo) = 0
  /\ patients' = IF mig.aborted THEN patients ELSE MigCommitted(patients, mig.updates)
  /\ mig' = [mig EXCEPT !.pc = "done",
               !.completed = IF mig.aborted THEN mig.completed ELSE mig.completed + 1]
  /\ UNCHANGED <<env, app, req, started, nextId, audit_logs, clock, urandom>>
  /\ MainFrame

(***************************************************************************)
(* Specifications of the store                                             *)
(***************************************************************************)
IdleStart == [pc |-> "off", salt |-> "none", ret |-> "none"]

OtherInit ==
  /\ salt_file = "missing"
  /\ starts = [s \in StartProcs |-> IdleStart]
  /\ cipher = IdleCipher

Init == MainInit /\ OtherInit

StepNext(seq) ==
  \/ SetEnv
  \/ AppStart
  \/ \E p \in Procs : AddPatient(p, seq)
  \/ \E p \in Procs : EditPatient(p, seq)
  \/ \E p \in Procs : EditTreatment(p, seq)
  \/ \E p \in Procs : TreatUpdate(p)
  \/ \E p \in Procs : DeletePatient(p, seq)
  \/ \E p \in Procs : ReadTip(p)
  \/ \E p \in Procs : Commit(p)
  \/ \E p \in Procs : ViewEncrypted(p, seq)
  \/ \E p \in Procs : ViewUpdate(p)
  \/ MigStart(seq)
  \/ MigStep
  \/ MigStepError
  \/ MigCrash
  \/ MigCommit

\* requests and reconciler runs in any interleaving
Next == StepNext(FALSE)

Spec == Init /\ [][Next]_vars

\* one request or reconciler run at a time
NextSeq == StepNext(TRUE)

SpecSeq == Init /\ [][NextSeq]_vars

(***************************************************************************)
(* The reconciler run offline, on stores left by earlier deployments: each *)
(* row's blob was written from the row's columns, under the current key or *)
(* under the key in use before a rotation                                  *)
(***************************************************************************)
\* a record with the delimiter inside a field
FormBar == [FormJ EXCEPT !.name = <<"a", Delim, "b">>]

MigForms == {FormJ, EmptyRecord, FormBar}

StoreSizes == {1, 2}

InitMig ==
  /\ env = "mk1"
  /\ app = AppStarted(env)
  /\ \E n \in StoreSizes : \E ds \in [1..n -> MigForms], ks \in [1..n -> Keys] :
       /\ patients = [i \in 1..n |->
                        MakeRow(ds[i], encrypt_patient_data(ks[i], i - 1, ds[i]))]
       /\ nextId = n + 1
       /\ urandom = n
  /\ audit_logs = <<>>
  /\ clock = 1
  /\ req = [p \in Procs |-> IdleReq]
  /\ mig = IdleMig
  /\ started = 0
  /\ OtherInit

NextMig ==
  \/ MigStart(TRUE)
  \/ MigStep
  \/ MigStepError
  \/ MigCrash
  \/ MigCommit

SpecMig == InitMig /\ [][NextMig]_vars

(***************************************************************************)
(* Cipher experiments as a specification                                   *)
(***************************************************************************)
QuietStore == MainInit /\ env = "mk1"

StoreUnchanged == UNCHANGED <<env, app, patients, nextId, audit_logs, clock, urandom,
                              req, mig, started>>

CipherNext ==
  \/ CipherEncrypt /\ StoreUnchanged /\ UNCHANGED <<salt_file, starts>>
  \/ CipherAlter /\ StoreUnchanged /\ UNCHANGED <<salt_file, starts>>
  \/ CipherOtherKey /\ StoreUnchanged /\ UNCHANGED <<salt_file, starts>>
  \/ CipherDecrypt /\ StoreUnchanged /\ UNCHANGED <<salt_file, starts>>

InitCipher ==
  /\ QuietStore
  /\ salt_file = "missing"
  /\ starts = [s \in StartProcs |-> IdleStart]
  /\ CipherInit

SpecCipher == InitCipher /\ [][CipherNext]_vars

(***************************************************************************)
(* Process starts running MedicalCrypto._get_or_create_salt                *)
(* salt_file is "missing" (no file), "empty" (created, nothing written)    *)
(* or the 16 bytes written                                                 *)
(***************************************************************************)
\* with open(salt_path, 'rb') as f: return f.read()  /  except FileNotFoundError
SaltRead(s) ==
  /\ starts[s].pc = "off"
  /\ starts' = [starts EXCEPT ![s] =
                  IF salt_file = "missing"
                  THEN [@ EXCEPT !.pc = "generate"]
                  ELSE [@ EXCEPT !.pc = "done", !.ret = salt_file]]
  /\ UNCHANGED salt_file

\* salt = os.urandom(16); open(salt_path, 'wb') creates or truncates the file
SaltCreate(s) ==
  /\ starts[s].pc = "generate"
  /\ \E salt \in Salts : starts' = [starts EXCEPT ![s].pc = "write", ![s].salt = salt]
  /\ salt_file' = "empty"

\* f.write(salt), the file is closed, return salt
SaltWrite(s) ==
  /\ starts[s].pc = "write"
  /\ salt_file' = starts[s].salt
  /\ starts' = [starts EXCEPT ![s].pc = "done", ![s].ret = starts[s].salt]

\* the process is killed inside _get_or_create_salt
SaltInterrupted(s) ==
  /\ starts[s].pc \in {"generate", "write"}
  /\ starts' = [starts EXCEPT ![s].pc = "killed"]
  /\ UNCHANGED salt_file

SaltNext ==
  \/ \E s \in StartProcs : SaltRead(s) /\ StoreUnchanged /\ UNCHANGED cipher
  \/ \E s \in StartProcs : SaltCreate(s) /\ StoreUnchanged /\ UNCHANGED cipher
  \/ \E s \in StartProcs : SaltWrite(s) /\ StoreUnchanged /\ UNCHANGED cipher
  \/ \E s \in StartProcs : SaltInterrupted(s) /\ StoreUnchanged /\ UNCHANGED cipher

InitSalt == QuietStore /\ OtherInit

SpecSalt == InitSalt /\ [][SaltNext]_vars

(***************************************************************************)
(* Chain verification as the specification describes it                    *)
(***************************************************************************)
\* the committed audit entries ordered by timestamp
RECURSIVE ByTimestamp(_)
ByTimestamp(log) ==
  IF Len(log) = 0 THEN <<>>
  ELSE LET i == CHOOSE k \in 1..Len(log) :
                  \A j \in 1..Len(log) : log[k].timestamp <= log[j].timestamp
       IN <<log[i]>> \o ByTimestamp([j \in 1..(Len(log) - 1) |->
                                       IF j < i THEN log[j] ELSE log[j + 1]])

\* the digest recomputed from an entry's own stored fields
Recomputed(e) == create_log_hash(e.prev_hash, e.role, e.action, e.details, e.timestamp)

\* position of the first entry whose recomputed digest differs from its stored
\* hash or from the next entry's prev_hash; 0 when the chain verifies
verify_chain(entries) ==
  LET Bad(i) == \/ Recomputed(entries[i]) # entries[i].hash
                \/ i < Len(entries) /\ Recomputed(entries[i]) # entries[i + 1].prev_hash
  IN IF \A i \in 1..Len(entries) : ~Bad(i) THEN 0
     ELSE CHOOSE i \in 1..Len(entries) : Bad(i) /\ \A j \in 1..(i - 1) : ~Bad(j)

(***************************************************************************)
(* Properties                                                              *)
(***************************************************************************)

\* C1: with requests that do not overlap, the committed audit entries ordered by
\* timestamp form a chain: the first entry's prev_hash is the genesis value and
\* every later entry's prev_hash is the stored hash of the entry before it.
C1_ChainLinked ==
  LET chain == ByTimestamp(audit_logs)
  IN /\ Len(chain) > 0 => chain[1].prev_hash = GenesisHash
     /\ \A i \in 2..Len(chain) : chain[i].prev_hash = chain[i - 1].hash

\* three entries have been appended one after the other, a deletion among them
C1_Witness ==
  /\ Len(audit_logs) = 3
  /\ \E i \in 1..3 : audit_logs[i].action = "Delete Patient"
  /\ \E i \in 1..3 : audit_logs[i].action = "Add Patient"

\* C2: the stored hash of every committed audit entry equals the digest
\* recomputed from the entry's own stored fields.
C2_HashRecomputable ==
  \A i \in 1..Len(audit_logs) : audit_logs[i].hash = Recomputed(audit_logs[i])

TamperedDetails == {<<"tampered">>}

\* C3: changing the stored details of any one entry of the log makes chain
\* verification fail at that entry's position.
C3_TamperDetected ==
  LET chain == ByTimestamp(audit_logs)
  IN \A k \in 1..Len(chain) : \A d \in TamperedDetails :
       verify_chain([chain EXCEPT ![k].details = d]) = k

\* C4: no two committed audit entries carry the same prev_hash.
C4_NoFork ==
  \A i, j \in 1..Len(audit_logs) :
    i # j => audit_logs[i].prev_hash # audit_logs[j].prev_hash

\* some plaintext column of a row, or the set of rows, changes in this step
RowsChanged ==
  /\ patients' # patients
  /\ \/ DOMAIN patients' # DOMAIN patients
     \/ \E id \in DOMAIN patients \cap DOMAIN patients' :
          SideFields(patients'[id]) # SideFields(patients[id])

\* exactly one entry is added to the audit log in this step
OneEntryAdded ==
  /\ Len(audit_logs') = Len(audit_logs) + 1
  /\ SubSeq(audit_logs', 1, Len(audit_logs)) = audit_logs

\* this step is the commit of view_encrypted or a step of the reconciler
BlobOnlyStep ==
  \/ mig' # mig
  \/ \E p \in Procs : req[p].pc = "view_update" /\ req'[p].pc = "idle"

\* C5 as stated: every committed change of a patient row, the replacement of the
\* blob included, is committed together with exactly one new audit entry.
C5_EveryMutationAudited ==
  [][patients' # patients => OneEntryAdded]_vars

\* C5 as amended: every committed row insert, column update and row delete is
\* committed together with exactly one new audit entry; view_encrypted and the
\* reconciler replace blobs and commit no audit entry.
C5_RowChangesAudited ==
  [][/\ RowsChanged => OneEntryAdded
     /\ BlobOnlyStep => audit_logs' = audit_logs]_vars

\* a row was inserted together with one audit entry, and the blob of the first
\* row was filled in with no audit entry
C5_Witness ==
  /\ 2 \in DOMAIN patients
  /\ Len(audit_logs) = 1
  /\ 1 \in DOMAIN patients /\ patients[1].encrypted_data # NullBlob

\* C6: decrypting what was encrypted under the same key gives back the record.
C6_RoundTrip ==
  cipher.pc = "roundtrip" => cipher.decrypted = cipher.patient_data

\* C7: what decryption returns for an altered or malformed blob, or under
\* another key, is a result that no decryption of a valid blob returns.
C7_FailureDistinct ==
  cipher.pc = "rejected" =>
    \A r \in [FieldNames -> FieldVals] :
      cipher.decrypted # decrypt_patient_data(cipher.dkey,
                            encrypt_patient_data(cipher.dkey, 0, r))

\* C8: no running entry point holds a key derived from the fallback constant
\* and no stored blob is encrypted under such a key.
C8_NoFallbackKey ==
  /\ app.state = "up" => app.key.master # FallbackKey
  /\ mig.pc # "idle" => mig.key.master # FallbackKey
  /\ \A id \in DOMAIN patients :
       patients[id].encrypted_data.kind = "gcm" =>
         patients[id].encrypted_data.key.master # FallbackKey

\* C9: all calls of _get_or_create_salt that return, return the same 16 bytes.
C9_SameSalt ==
  \A s, t \in StartProcs :
    starts[s].pc = "done" /\ starts[t].pc = "done" =>
      starts[s].ret = starts[t].ret /\ starts[s].ret \in Salts

\* the ids whose UPDATE the reconciler has issued in this run
Processed == {mig.updates[i].id : i \in 1..Len(mig.updates)}

\* C10: a step of the reconciler leaves the audit log, the set of rows and every
\* plaintext column of every row unchanged, and changes the blob only of rows
\* it has processed.
C10_ReconcilerFrame ==
  [][mig' # mig =>
       /\ audit_logs' = audit_logs
       /\ DOMAIN patients' = DOMAIN patients
       /\ \A id \in DOMAIN patients :
            /\ SideFields(patients'[id]) = SideFields(patients[id])
            /\ patients'[id].encrypted_data # patients[id].encrypted_data
                 => id \in Processed]_vars

\* a run has ended after replacing a blob it could not decrypt
C10_Witness ==
  /\ mig.pc = "done"
  /\ mig.reconstructed_count > 0
  /\ \E id \in DOMAIN patients :
       /\ patients[id].encrypted_data.kind = "gcm"
       /\ patients[id].encrypted_data.key = mig.key
       /\ patients[id].encrypted_data.key # app.key

\* C11: the blob updates of the records processed before a crash or before a
\* failed record remain committed in the store, and after a failed record the
\* remaining records are still processed.
C11_IndependentCommits ==
  /\ mig.pc \in {"crashed", "done"} =>
       \A i \in 1..Len(mig.updates) :
         patients[mig.updates[i].id].encrypted_data = mig.updates[i].blob
  /\ mig.pc = "done" /\ mig.aborted => mig.fail_count = 1

\* C12: when the reconciler has run twice in succession, both runs to the end and
\* with no failed statement, the second run has reconstructed and failed no record.
C12_SecondRunClean ==
  started = 2 /\ mig.completed = 2 /\ mig.pc = "done" =>
    mig.reconstructed_count = 0 /\ mig.fail_count = 0

\* this step commits the transaction of request thread p
Commits(p) == req[p].pc \in {"commit", "view_update"} /\ req'[p].pc = "idle"

\* this step changes at most the treatment column and the blob of row id
OnlyTreatmentOf(id) ==
  /\ DOMAIN patients' = DOMAIN patients
  /\ \A i \in DOMAIN patients :
       IF i = id
       THEN [SideFields(patients'[i]) EXCEPT !.treatment = <<>>]
              = [SideFields(patients[i]) EXCEPT !.treatment = <<>>]
       ELSE patients'[i] = patients[i]

\* this step changes at most the blob of row id
OnlyBlobOf(id) ==
  /\ DOMAIN patients' = DOMAIN patients
  /\ \A i \in DOMAIN patients :
       IF i = id
       THEN SideFields(patients'[i]) = SideFields(patients[i])
       ELSE patients'[i] = patients[i]

\* every change of the table is the commit of a request or of the reconciler
ChangedByCommit == patients' # patients => mig' # mig \/ \E p \in Procs : Commits(p)

\* insert, full edit and delete are committed by Doctor only, a treatment update
\* by Nurse only
DoctorAndNurseRules(p) ==
  /\ req[p].op \in {"add", "edit", "delete"} <=> req[p].role = "Doctor"
  /\ req[p].op = "treat" <=> req[p].role = "Nurse"
  /\ req[p].op = "treat" => OnlyTreatmentOf(req[p].id)

C14_NewBlobContent ==
  mig.pc = "done" /\ ~mig.aborted =>
    \A i \in 1..Len(mig.fetched) :
      LET id  == mig.fetched[i].id
          old == mig.fetched[i].row
      IN decrypt_patient_data(mig.key, patients[id].encrypted_data)
           = IF Authentic(mig.key, old.encrypted_data)
             THEN decrypt_patient_data(mig.key, old.encrypted_data)
             ELSE SideFields(patients[id])

\* no field of the row contains the delimiter
DelimFree(row) == \A f \in FieldNames : \A i \in 1..Len(row[f]) : row[f][i] # Delim

\* C15: the blob of every row whose fields are free of the delimiter and whose
\* blob was written under the application's key decrypts under that key to the
\* row's current plaintext columns.
C15_BlobMirrorsColumns ==
  \A id \in DOMAIN patients :
    LET row == patients[id]
    IN /\ row.encrypted_data # NullBlob
       /\ DelimFree(row)
       /\ row.encrypted_data.key = app.key
       => decrypt_patient_data(app.key, row.encrypted_data) = SideFields(row)

\* C16: a request of edit_patient, edit_treatment or delete_patient whose target
\* id is not in the table commits no audit entry and leaves the store unchanged.
C16_NoAuditWithoutRow ==
  [][\A p \in Procs :
       /\ Commits(p)
       /\ req[p].op \in {"edit", "treat", "delete"}
       /\ req[p].id \notin DOMAIN patients
       => audit_logs' = audit_logs /\ patients' = patients]_vars
====
